---- MODULE Spec2Model ----
(***************************************************************************)
(* Model of python-scripts/fetch_weekly_qfq.py: build_dataset and the two  *)
(* queries it runs on one sqlite3 connection.                              *)
(*                                                                         *)
(* Text values (ts_code, name) are tuples of one-character strings, so     *)
(* that UPPER, INSTR, rsplit and the ORDER BY comparison are computed.     *)
(* trade_date is TEXT in YYYYMMdd format (line 24 of the source), whose    *)
(* lexical order is the chronological one: a date is modelled by its week  *)
(* number, a positive integer, and SQL NULL by the integer 0, which the    *)
(* ORDER BY sorts first, as SQLite does.                                   *)
(***************************************************************************)
EXTENDS Integers, Sequences, FiniteSets, TLC

VARIABLES
    db_exists,       \* DB_PATH.exists()
    weekly_qfq,      \* the table weekly_qfq, in storage order
    stock_info,      \* the table stock_info, in storage order
    pc,              \* position of build_dataset
    conn,            \* "none", "open" or "closed"
    queries,         \* the queries executed on conn, in order
    weekly_data,     \* build_dataset's weekly_data (a dict)
    stock_info_map,  \* build_dataset's stock_info_map (a dict)
    dataset,         \* the value build_dataset returns (a dict)
    error,           \* the exception that leaves build_dataset, or "none"
    info_seen,       \* stock_info as the weekly-row query read it
    writes           \* commits of other processes between the two queries

vars == <<db_exists, weekly_qfq, stock_info, pc, conn, queries, weekly_data,
          stock_info_map, dataset, error, info_seen, writes>>

---------------------------------------------------------------------------
(* Bounds of the model and constants of the program.                       *)

\* HAVING COUNT(*) >= 240
MinRows == 240
\* a long series has MinRows - 1 .. MinRows + MaxExtra rows
MaxExtra == 0
\* stock_info holds at most this many records of one ts_code
MaxInfoRecords == 2
\* commits of other processes between the weekly-row and the metadata query
MaxWrites == 1

---------------------------------------------------------------------------
(* Text.                                                                   *)

\* SQL NULL in a TEXT column; no text value is this tuple
NullText == <<"NULL">>

AsciiUpper ==
    ("a" :> "A") @@ ("b" :> "B") @@ ("h" :> "H") @@ ("s" :> "S")
    @@ ("t" :> "T") @@ ("z" :> "Z")

UpperChar(c) == IF c \in DOMAIN AsciiUpper THEN AsciiUpper[c] ELSE c

\* SQLite's UPPER(X) on a non-NULL text
UPPER(s) == [i \in 1..Len(s) |-> UpperChar(s[i])]

\* Python's str.upper()
upper(s) == [i \in 1..Len(s) |-> UpperChar(s[i])]

\* SQLite's INSTR(X, Y) on non-NULL texts: the 1-based position of the first
\* occurrence of Y in X, or 0
INSTR(x, y) ==
    LET at == {i \in 1..(Len(x) - Len(y) + 1) : SubSeq(x, i, i + Len(y) - 1) = y}
    IN  IF at = {} THEN 0 ELSE CHOOSE i \in at : \A j \in at : i <= j

ST == <<"S", "T">>

\* WHERE INSTR(UPPER(name), 'ST') = 0: INSTR and UPPER of NULL are NULL, and a
\* WHERE clause keeps a row only when its condition is true
NotST(name) == name /= NullText /\ INSTR(UPPER(name), ST) = 0

\* code points of the characters of the model, for the BINARY collation
CodePoint ==
    ("*" :> 42) @@ ("." :> 46) @@ ("0" :> 48) @@ ("6" :> 54) @@ ("8" :> 56)
    @@ ("A" :> 65) @@ ("B" :> 66) @@ ("H" :> 72) @@ ("J" :> 74) @@ ("S" :> 83)
    @@ ("T" :> 84) @@ ("Z" :> 90) @@ ("a" :> 97) @@ ("b" :> 98) @@ ("h" :> 104)
    @@ ("s" :> 115) @@ ("t" :> 116) @@ ("z" :> 122)

\* a < b in the BINARY collation of TEXT (memcmp, then the shorter first)
TextLess(a, b) ==
    \E k \in 1..(Len(a) + 1) :
        /\ k <= Len(b)
        /\ \A i \in 1..(k - 1) : a[i] = b[i]
        /\ k = Len(a) + 1 \/ CodePoint[a[k]] < CodePoint[b[k]]

---------------------------------------------------------------------------
(* detect_exchange                                                         *)

\* the labels the source returns are Chinese texts: "SSE" stands for the
\* Shanghai label, "SZSE" for the Shenzhen label, "UNKNOWN" for the third
detect_exchange(ts_code) ==
    LET dots == {i \in 1..Len(ts_code) : ts_code[i] = "."}
        last == CHOOSE i \in dots : \A j \in dots : j <= i
        suffix == IF dots /= {}
                  THEN upper(SubSeq(ts_code, last + 1, Len(ts_code)))
                  ELSE <<>>
    IN  IF suffix = <<"S", "H">> THEN "SSE"
        ELSE IF suffix = <<"S", "Z">> THEN "SZSE"
        ELSE "UNKNOWN"

---------------------------------------------------------------------------
(* Python dicts: a dict is the sequence of its items, in insertion order.  *)

DictKeys(d) == [i \in 1..Len(d) |-> d[i].key]
DictHas(d, k) == \E i \in 1..Len(d) : d[i].key = k
DictIndex(d, k) == CHOOSE i \in 1..Len(d) : d[i].key = k
\* d[k]
DictGet(d, k) == d[DictIndex(d, k)].value
\* d.get(k, default)
DictGetDefault(d, k, default) == IF DictHas(d, k) THEN DictGet(d, k) ELSE default
\* d[k] = v
DictSet(d, k, v) ==
    IF DictHas(d, k)
    THEN [d EXCEPT ![DictIndex(d, k)].value = v]
    ELSE Append(d, [key |-> k, value |-> v])

---------------------------------------------------------------------------
(* SQL values of trade_date, and the aggregate MAX.                        *)

NullDate == 0

\* a = b as a WHERE or HAVING condition: not true when either side is NULL
SqlEq(a, b) == a /= NullDate /\ b /= NullDate /\ a = b

\* MAX of two values: NULLs are ignored, and the result is NULL when both are
SqlMax2(a, b) ==
    IF a = NullDate THEN b
    ELSE IF b = NullDate THEN a
    ELSE IF a >= b THEN a ELSE b

RECURSIVE MaxTradeDateIn(_, _, _)
MaxTradeDateIn(rows, lo, hi) ==
    IF lo > hi THEN NullDate
    ELSE IF lo = hi THEN rows[lo].trade_date
    ELSE LET mid == (lo + hi) \div 2
         IN  SqlMax2(MaxTradeDateIn(rows, lo, mid), MaxTradeDateIn(rows, mid + 1, hi))

\* SELECT MAX(trade_date) FROM rows
MaxTradeDate(rows) == MaxTradeDateIn(rows, 1, Len(rows))

RowsOf(rows, ts_code) == SelectSeq(rows, LAMBDA r : r.ts_code = ts_code)

TsCodesOf(rows) == {rows[i].ts_code : i \in 1..Len(rows)}

---------------------------------------------------------------------------
(* fetch_weekly_rows: the query.                                           *)

\* a WHERE clause that compares the name as it is stored
WeeklyWhereCaseSensitive(si) == si.name /= NullText /\ INSTR(si.name, ST) = 0

\* WHERE INSTR(UPPER(si.name), 'ST') = 0, of the weekly-row query
WeeklyWhere(si) == NotST(si.name)

\* the rows of weekly_qfq that join to the stock_info record si and pass
\* the WHERE clause
JoinedTo(W, si) ==
    IF WeeklyWhere(si) THEN RowsOf(W, si.ts_code) ELSE <<>>

RECURSIVE JoinFrom(_, _, _)
JoinFrom(W, SI, j) ==
    IF j > Len(SI) THEN <<>> ELSE JoinedTo(W, SI[j]) \o JoinFrom(W, SI, j + 1)

\* WITH filtered AS (SELECT w.* FROM weekly_qfq AS w JOIN stock_info AS si
\*   ON w.ts_code = si.ts_code WHERE INSTR(UPPER(si.name), 'ST') = 0)
filtered(W, SI) == JoinFrom(W, SI, 1)

\* global_max AS (SELECT MAX(trade_date) AS max_trade_date FROM filtered)
global_max(F) == MaxTradeDate(F)

\* a HAVING clause without COUNT(*) >= 240
qualifiedWithoutCount(F) ==
    {t \in TsCodesOf(F) : SqlEq(MaxTradeDate(RowsOf(F, t)), global_max(F))}

\* a HAVING clause without MAX(trade_date) = (SELECT max_trade_date ...)
qualifiedWithoutMax(F) ==
    {t \in TsCodesOf(F) : Len(RowsOf(F, t)) >= MinRows}

\* qualified AS (SELECT ts_code FROM filtered GROUP BY ts_code
\*   HAVING COUNT(*) >= 240 AND MAX(trade_date) = (SELECT max_trade_date ...))
qualified(F) ==
    {t \in TsCodesOf(F) :
        /\ Len(RowsOf(F, t)) >= MinRows
        /\ SqlEq(MaxTradeDate(RowsOf(F, t)), global_max(F))}

\* ORDER BY trade_date ASC of rows whose trade_date is in lo..hi: the rows
\* of the lower half of the range, sorted, then those of the upper half
RECURSIVE OrderByTradeDate(_, _, _)
OrderByTradeDate(rows, lo, hi) ==
    IF Len(rows) <= 1 \/ lo >= hi THEN rows
    ELSE LET mid == (lo + hi) \div 2
         IN  OrderByTradeDate(SelectSeq(rows, LAMBDA r : r.trade_date <= mid), lo, mid)
             \o OrderByTradeDate(SelectSeq(rows, LAMBDA r : r.trade_date > mid), mid + 1, hi)

\* the ts_codes of a set, ascending
RECURSIVE TsCodesAscending(_)
TsCodesAscending(S) ==
    IF S = {} THEN <<>>
    ELSE LET least == CHOOSE t \in S : \A u \in S \ {t} : TextLess(t, u)
         IN  <<least>> \o TsCodesAscending(S \ {least})

RECURSIVE OrderByFrom(_, _, _)
OrderByFrom(rows, codes, k) ==
    IF k > Len(codes) THEN <<>>
    ELSE LET mine == RowsOf(rows, codes[k])
         IN  OrderByTradeDate(mine, NullDate, MaxTradeDate(mine))
             \o OrderByFrom(rows, codes, k + 1)

\* a query without its ORDER BY clause: the rows come in storage order
Unordered(rows) == rows

\* ORDER BY ts_code ASC, trade_date ASC
OrderBy(rows) == OrderByFrom(rows, TsCodesAscending(TsCodesOf(rows)), 1)

\* SELECT ... FROM filtered WHERE ts_code IN (SELECT ts_code FROM qualified)
\* ORDER BY ts_code ASC, trade_date ASC
WeeklyQuery(W, SI) ==
    LET F == filtered(W, SI)
        Q == qualified(F)
    IN  OrderBy(SelectSeq(F, LAMBDA r : r.ts_code \in Q))

---------------------------------------------------------------------------
(* fetch_weekly_rows: the grouping loop.                                   *)

\* grouped.setdefault(ts_code, []).append(item), for a run of items of one
\* ts_code
SetDefaultAppend(grouped, ts_code, items) ==
    DictSet(grouped, ts_code, DictGetDefault(grouped, ts_code, <<>>) \o items)

RECURSIVE ExtendFrom(_, _, _)
ExtendFrom(grouped, more, k) ==
    IF k > Len(more) THEN grouped
    ELSE ExtendFrom(SetDefaultAppend(grouped, more[k].key, more[k].value), more, k + 1)

\* the loop over stream[lo..hi], started from an empty dict: the loop over
\* the first half, continued with the rows of the second half (their lists
\* are appended key by key, in the order the loop meets the keys)
RECURSIVE GroupRows(_, _, _)
GroupRows(stream, lo, hi) ==
    IF lo > hi THEN <<>>
    ELSE IF lo = hi THEN SetDefaultAppend(<<>>, stream[lo].ts_code, <<stream[lo]>>)
    ELSE LET mid == (lo + hi) \div 2
         IN  ExtendFrom(GroupRows(stream, lo, mid), GroupRows(stream, mid + 1, hi), 1)

fetch_weekly_rows(W, SI) ==
    LET stream == WeeklyQuery(W, SI)
    IN  GroupRows(stream, 1, Len(stream))

---------------------------------------------------------------------------
(* fetch_stock_info                                                        *)

\* a WHERE clause without the condition on the name
InfoWhereWithoutST(si, ts_codes) == si.ts_code \in ts_codes

\* WHERE ts_code IN (...) AND INSTR(UPPER(name), 'ST') = 0, of the metadata
\* query
InfoWhere(si, ts_codes) == si.ts_code \in ts_codes /\ NotST(si.name)

\* the loop over the rows of the metadata query, which come in storage order
RECURSIVE InfoLoop(_, _, _, _)
InfoLoop(info_map, SI, ts_codes, j) ==
    IF j > Len(SI) THEN info_map
    ELSE IF InfoWhere(SI[j], ts_codes)
    THEN InfoLoop(DictSet(info_map, SI[j].ts_code,
                          [ts_code |-> SI[j].ts_code, name |-> SI[j].name,
                           exchange |-> detect_exchange(SI[j].ts_code)]),
                  SI, ts_codes, j + 1)
    ELSE InfoLoop(info_map, SI, ts_codes, j + 1)

\* fetch_stock_info without its early return
InfoQueryAlways(ts_codes) == TRUE

\* whether fetch_stock_info executes its query
InfoQueryRuns(ts_codes) == Len(ts_codes) /= 0

fetch_stock_info(SI, ts_codes) ==
    IF ~InfoQueryRuns(ts_codes) THEN <<>>
    ELSE InfoLoop(<<>>, SI, {ts_codes[i] : i \in 1..Len(ts_codes)}, 1)

---------------------------------------------------------------------------
(* build_dataset: the assembly loop.                                       *)

\* a placeholder whose exchange label is not computed
PlaceholderUnknown(ts_code) == [ts_code |-> ts_code, exchange |-> "UNKNOWN"]

\* {"ts_code": ts_code, "exchange": detect_exchange(ts_code)}
Placeholder(ts_code) == [ts_code |-> ts_code, exchange |-> detect_exchange(ts_code)]

Entry(info_map, ts_code, rows) ==
    [stock_info |-> DictGetDefault(info_map, ts_code, Placeholder(ts_code)),
     weekly_qfq |-> rows]

RECURSIVE AssembleFrom(_, _, _, _)
AssembleFrom(ds, weekly, info_map, k) ==
    IF k > Len(weekly) THEN ds
    ELSE AssembleFrom(DictSet(ds, weekly[k].key,
                              Entry(info_map, weekly[k].key, weekly[k].value)),
                      weekly, info_map, k + 1)

\* an assembly that keeps only the ts_codes stock_info_map holds
AssembledInnerJoin(weekly, info_map) ==
    AssembleFrom(<<>>, SelectSeq(weekly, LAMBDA item : DictHas(info_map, item.key)),
                 info_map, 1)

Assembled(weekly, info_map) == AssembleFrom(<<>>, weekly, info_map, 1)

---------------------------------------------------------------------------
(* The stores build_dataset is run on.                                     *)

\* ts_codes of the store: one of each exchange suffix, in either case
TsA == <<"6", ".", "S", "H">>
TsB == <<"0", ".", "s", "z">>

\* display names: one without the marker, one with it in mixed case, NULL
Names == {<<"A", "B">>, <<"*", "s", "T">>, NullText}

\* the latest trade date of the store
Latest == MinRows + MaxExtra + 2

\* n weekly rows of one ts_code, the last one dated last, stored from the
\* newest to the oldest; with_null, the oldest has no trade date
Series(ts_code, n, last, with_null) ==
    [i \in 1..n |->
        [ts_code |-> ts_code,
         trade_date |-> IF with_null /\ i = n THEN NullDate ELSE last - (i - 1)]]

InfoRecords(ts_code, names) ==
    [j \in 1..Len(names) |-> [ts_code |-> ts_code, name |-> names[j]]]

NameSeqs(names, k) == UNION {[1..m -> names] : m \in 0..k}

\* row counts of TsA: below, at and above the threshold, and half of it
CountsA == {MinRows \div 2} \cup ((MinRows - 1)..(MinRows + MaxExtra))
\* row counts of TsB
CountsB == {1, MinRows}
\* the last trade dates of TsA and of TsB: one of them is Latest
LastDates == {<<Latest, Latest>>, <<Latest - 1, Latest>>, <<Latest, Latest - 1>>}

\* weekly_qfq: the series of TsA, whose oldest row has no trade date, then
\* the series of TsB
WeeklyTables ==
    {Series(TsA, nA, last[1], TRUE) \o Series(TsB, nB, last[2], FALSE) :
        nA \in CountsA, nB \in CountsB, last \in LastDates}

\* stock_info: up to MaxInfoRecords records of TsA, then at most one of TsB
InfoTables ==
    {InfoRecords(TsA, namesA) \o InfoRecords(TsB, namesB) :
        namesA \in NameSeqs(Names, MaxInfoRecords),
        namesB \in NameSeqs(Names \ {NullText}, 1)}

Init ==
    /\ db_exists \in BOOLEAN
    /\ weekly_qfq \in IF db_exists THEN WeeklyTables ELSE {<<>>}
    /\ stock_info \in IF db_exists THEN InfoTables ELSE {<<>>}
    /\ pc = "start"
    /\ conn = "none"
    /\ queries = <<>>
    /\ weekly_data = <<>>
    /\ stock_info_map = <<>>
    /\ dataset = <<>>
    /\ error = "none"
    /\ info_seen = <<>>
    /\ writes = 0

---------------------------------------------------------------------------
(* build_dataset, step by step.                                            *)

\* if not DB_PATH.exists(): raise FileNotFoundError
MissingStore ==
    /\ pc = "start"
    /\ ~db_exists
    /\ error' = "FileNotFoundError"
    /\ pc' = "raised"
    /\ UNCHANGED <<db_exists, weekly_qfq, stock_info, conn, queries, weekly_data,
                   stock_info_map, dataset, info_seen, writes>>

\* conn = sqlite3.connect(DB_PATH)
Connect ==
    /\ pc = "start"
    /\ db_exists
    /\ conn' = "open"
    /\ pc' = "fetch_weekly"
    /\ UNCHANGED <<db_exists, weekly_qfq, stock_info, queries, weekly_data,
                   stock_info_map, dataset, error, info_seen, writes>>

\* weekly_data = fetch_weekly_rows(conn)
FetchWeeklyRows ==
    /\ pc = "fetch_weekly"
    /\ queries' = Append(queries, "weekly_rows")
    /\ weekly_data' = fetch_weekly_rows(weekly_qfq, stock_info)
    /\ info_seen' = stock_info
    /\ pc' = "fetch_info"
    /\ UNCHANGED <<db_exists, weekly_qfq, stock_info, conn, stock_info_map,
                   dataset, error, writes>>

\* conn.execute(query) raises in fetch_weekly_rows
FetchWeeklyRowsFails ==
    /\ pc = "fetch_weekly"
    /\ queries' = Append(queries, "weekly_rows")
    /\ error' = "sqlite3.Error"
    /\ pc' = "finally"
    /\ UNCHANGED <<db_exists, weekly_qfq, stock_info, conn, weekly_data,
                   stock_info_map, dataset, info_seen, writes>>

\* another process commits a change of a stock_info record between the two
\* statements, which run in autocommit mode: it renames or deletes a record
\* of a ts_code the first query returned (the metadata query reads nothing
\* else, and a commit before the first query is another initial store)
StoreWrite ==
    /\ pc = "fetch_info"
    /\ writes < MaxWrites
    /\ \E j \in 1..Len(stock_info) :
          /\ DictHas(weekly_data, stock_info[j].ts_code)
          /\ \/ \E name \in Names \ {stock_info[j].name} :
                   stock_info' = [stock_info EXCEPT ![j].name = name]
             \/ stock_info' = SubSeq(stock_info, 1, j - 1)
                              \o SubSeq(stock_info, j + 1, Len(stock_info))
    /\ writes' = writes + 1
    /\ UNCHANGED <<db_exists, weekly_qfq, pc, conn, queries, weekly_data,
                   stock_info_map, dataset, error, info_seen>>

\* stock_info_map = fetch_stock_info(conn, weekly_data.keys())
FetchStockInfo ==
    /\ pc = "fetch_info"
    /\ queries' = IF InfoQueryRuns(DictKeys(weekly_data))
                  THEN Append(queries, "stock_info")
                  ELSE queries
    /\ stock_info_map' = fetch_stock_info(stock_info, DictKeys(weekly_data))
    /\ pc' = "assemble"
    /\ UNCHANGED <<db_exists, weekly_qfq, stock_info, conn, weekly_data, dataset,
                   error, info_seen, writes>>

\* conn.execute(query, ts_codes) raises in fetch_stock_info
FetchStockInfoFails ==
    /\ pc = "fetch_info"
    /\ InfoQueryRuns(DictKeys(weekly_data))
    /\ queries' = Append(queries, "stock_info")
    /\ error' = "sqlite3.Error"
    /\ pc' = "finally"
    /\ UNCHANGED <<db_exists, weekly_qfq, stock_info, conn, weekly_data,
                   stock_info_map, dataset, info_seen, writes>>

\* the loop that fills dataset
Assemble ==
    /\ pc = "assemble"
    /\ dataset' = Assembled(weekly_data, stock_info_map)
    /\ pc' = "finally"
    /\ UNCHANGED <<db_exists, weekly_qfq, stock_info, conn, queries, weekly_data,
                   stock_info_map, error, info_seen, writes>>

\* conn.close() after the loop instead of in a finally clause
CloseOnReturnOnly ==
    /\ pc = "finally"
    /\ conn' = IF error = "none" THEN "closed" ELSE conn
    /\ pc' = IF error = "none" THEN "returned" ELSE "raised"
    /\ UNCHANGED <<db_exists, weekly_qfq, stock_info, queries, weekly_data,
                   stock_info_map, dataset, error, info_seen, writes>>

\* finally: conn.close(), then the return or the pending exception
Finally ==
    /\ pc = "finally"
    /\ conn' = "closed"
    /\ pc' = IF error = "none" THEN "returned" ELSE "raised"
    /\ UNCHANGED <<db_exists, weekly_qfq, stock_info, queries, weekly_data,
                   stock_info_map, dataset, error, info_seen, writes>>

Next ==
    \/ MissingStore
    \/ Connect
    \/ FetchWeeklyRows
    \/ FetchWeeklyRowsFails
    \/ StoreWrite
    \/ FetchStockInfo
    \/ FetchStockInfoFails
    \/ Assemble
    \/ Finally

Spec == Init /\ [][Next]_vars

---------------------------------------------------------------------------
(* Properties.                                                             *)

Returned == pc = "returned"

\* the ts_code, the stock_info and the weekly_qfq of the i-th Dataset entry
KeyAt(i) == dataset[i].key
InfoAt(i) == dataset[i].value.stock_info
RowsAt(i) == dataset[i].value.weekly_qfq

HasName(info) == "name" \in DOMAIN info

\* the name contains "ST" as a case-insensitive substring
ContainsST(name) ==
    /\ name /= NullText
    /\ \E i \in 1..(Len(name) - 1) : name[i] \in {"S", "s"} /\ name[i + 1] \in {"T", "t"}

\* the row belongs to the filtered row set of the weekly-row query: its
\* ts_code joins to a record, read by that query, with a name without "ST"
InFilteredSet(row) ==
    \E j \in 1..Len(info_seen) :
        /\ info_seen[j].ts_code = row.ts_code
        /\ info_seen[j].name /= NullText
        /\ ~ContainsST(info_seen[j].name)

\* C1: every ticker of the returned Dataset has a row list of length >= 240.
C1_RowCount ==
    Returned => \A i \in 1..Len(dataset) : Len(RowsAt(i)) >= 240

\* a ticker is returned with exactly 240 rows, from 120 stored rows that
\* join to two records each
C1_Witness ==
    /\ Returned
    /\ \E i \in 1..Len(dataset) :
          /\ Len(RowsAt(i)) = 240
          /\ Len(RowsOf(weekly_qfq, KeyAt(i))) = 120

\* C2: for every ticker of the returned Dataset, the trade date of its last
\* row is the maximum trade date of the full filtered row set, the rows of
\* the non-qualifying tickers included.
C2_LastIsGlobalMax ==
    Returned =>
        \A i \in 1..Len(dataset) :
            /\ RowsAt(i) /= <<>>
            /\ LET last == RowsAt(i)[Len(RowsAt(i))].trade_date
               IN  /\ last /= NullDate
                   /\ \A k \in 1..Len(weekly_qfq) :
                         InFilteredSet(weekly_qfq[k]) => weekly_qfq[k].trade_date <= last
                   /\ \E k \in 1..Len(weekly_qfq) :
                         InFilteredSet(weekly_qfq[k]) /\ weekly_qfq[k].trade_date = last

\* one ticker is returned while the filtered row set holds a row of another
\* ticker, which does not qualify
C2_Witness ==
    /\ Returned
    /\ Len(dataset) = 1
    /\ \E k \in 1..Len(weekly_qfq) :
          InFilteredSet(weekly_qfq[k]) /\ weekly_qfq[k].ts_code /= KeyAt(1)

\* C3: a display name carried by the stock_info of a Dataset entry does not
\* contain "ST" as a case-insensitive substring.
C3_NoSTName ==
    Returned =>
        \A i \in 1..Len(dataset) : HasName(InfoAt(i)) => ~ContainsST(InfoAt(i).name)

\* an entry carries a name while the table holds a record of the same
\* ts_code whose name contains "ST"
C3_Witness ==
    /\ Returned
    /\ \E i \in 1..Len(dataset) :
          /\ HasName(InfoAt(i))
          /\ \E j \in 1..Len(stock_info) :
                stock_info[j].ts_code = KeyAt(i) /\ ContainsST(stock_info[j].name)

\* C4: when fetch_weekly_rows has returned, each ticker's row list is in
\* non-decreasing order of trade date (a NULL date first), and it is the
\* ticker's rows of the result stream, in the order of the stream.
C4_SortedByTradeDate ==
    (pc = "fetch_info" /\ writes = 0) =>
        \A i \in 1..Len(weekly_data) :
            /\ \A k \in 1..(Len(weekly_data[i].value) - 1) :
                  weekly_data[i].value[k].trade_date
                      <= weekly_data[i].value[k + 1].trade_date
            /\ weekly_data[i].value
                  = SelectSeq(WeeklyQuery(weekly_qfq, info_seen),
                              LAMBDA r : r.ts_code = weekly_data[i].key)

\* two tickers are returned, whose rows are stored from the newest to the
\* oldest; a list starts with a row without date, twice (a tie)
C4_Witness ==
    /\ pc = "fetch_info"
    /\ writes = 0
    /\ Len(weekly_data) = 2
    /\ weekly_qfq[1].trade_date > weekly_qfq[2].trade_date
    /\ \E i \in 1..Len(weekly_data) :
          /\ weekly_data[i].value[1].trade_date = NullDate
          /\ weekly_data[i].value[2].trade_date = NullDate
          /\ weekly_data[i].value[Len(weekly_data[i].value)].trade_date = Latest

NoRecordOf(table, ts_code) == \A j \in 1..Len(table) : table[j].ts_code /= ts_code

\* C5 as stated: a ticker with at least 240 weekly rows, whose latest trade
\* date is the latest of the store and which has no stock_info record, is in
\* the returned Dataset with the placeholder.
C5_Original ==
    Returned =>
        \A t \in TsCodesOf(weekly_qfq) :
            ( /\ Len(RowsOf(weekly_qfq, t)) >= 240
              /\ MaxTradeDate(RowsOf(weekly_qfq, t)) = MaxTradeDate(weekly_qfq)
              /\ NoRecordOf(info_seen, t)
              /\ NoRecordOf(stock_info, t) )
            => /\ DictHas(dataset, t)
               /\ DictGet(dataset, t).stock_info
                    = [ts_code |-> t, exchange |-> detect_exchange(t)]

\* C5 amended: a ticker the weekly-row query returned and the fetched
\* metadata mapping lacks is in the returned Dataset with the placeholder;
\* a ticker without stock_info record when the weekly-row query ran is not
\* in the Dataset.
C5_Amended ==
    Returned =>
        /\ \A i \in 1..Len(weekly_data) :
              LET t == weekly_data[i].key
              IN  ~DictHas(stock_info_map, t) =>
                      /\ DictHas(dataset, t)
                      /\ DictGet(dataset, t).stock_info
                           = [ts_code |-> t, exchange |-> detect_exchange(t)]
        /\ \A t \in TsCodesOf(weekly_qfq) :
              NoRecordOf(info_seen, t) => ~DictHas(dataset, t)

\* a returned ticker whose only record was deleted before the metadata query
C5_Witness ==
    /\ Returned
    /\ \E i \in 1..Len(weekly_data) :
          /\ ~DictHas(stock_info_map, weekly_data[i].key)
          /\ NoRecordOf(stock_info, weekly_data[i].key)
          /\ InfoAt(i) = [ts_code |-> TsA, exchange |-> "SSE"]

\* C6: the Dataset has the keys of the row-group mapping, each once; each
\* key is paired with its entry of the metadata mapping, or with the
\* placeholder of its identifier and exchange label, and with its row list.
C6_Assembly ==
    (pc \in {"finally", "returned"} /\ error = "none") =>
        /\ Len(dataset) = Len(weekly_data)
        /\ \A i \in 1..Len(dataset) : KeyAt(i) = weekly_data[i].key
        /\ \A i, j \in 1..Len(dataset) : KeyAt(i) = KeyAt(j) => i = j
        /\ \A i \in 1..Len(dataset) :
              /\ RowsAt(i) = weekly_data[i].value
              /\ \A m \in 1..Len(stock_info_map) :
                    stock_info_map[m].key = KeyAt(i) => InfoAt(i) = stock_info_map[m].value
              /\ (\A m \in 1..Len(stock_info_map) : stock_info_map[m].key /= KeyAt(i))
                    => InfoAt(i) = [ts_code |-> KeyAt(i), exchange |-> detect_exchange(KeyAt(i))]

\* two tickers, one paired with its metadata and one with the placeholder
C6_Witness ==
    /\ Returned
    /\ Len(dataset) = 2
    /\ \E i, j \in 1..Len(dataset) :
          /\ HasName(InfoAt(i))
          /\ ~HasName(InfoAt(j))
          /\ InfoAt(j).exchange /= "UNKNOWN"

BothQueries == <<"weekly_rows", "stock_info">>

\* C7 as stated: a run that returns has executed exactly two queries, the
\* weekly-row query and then the metadata query.
C7_Original == Returned => queries = BothQueries

\* C7 amended: the queries executed on the connection are the weekly-row
\* query and then, only when that query returned at least one ticker, the
\* metadata query: two queries when the Dataset is not empty, one when no
\* ticker qualifies.
C7_Amended ==
    /\ queries \in {<<>>, <<"weekly_rows">>, BothQueries}
    /\ queries /= <<>> => conn /= "none"
    /\ (pc \in {"assemble", "returned"} \/ (pc = "finally" /\ error = "none")) =>
          queries = IF Len(weekly_data) > 0 THEN BothQueries ELSE <<"weekly_rows">>
    /\ (pc = "raised" /\ conn /= "none") => queries /= <<>>

\* a run on a store without qualifying ticker returns after one query
C7_Witness ==
    /\ Returned
    /\ dataset = <<>>
    /\ weekly_qfq /= <<>>
    /\ queries = <<"weekly_rows">>

\* C8: when build_dataset has exited with a connection opened, the
\* connection is closed, after a return as after an error of either query;
\* the error leaves build_dataset, which then returns no Dataset.
C8_ClosedOnExit ==
    /\ pc \in {"returned", "raised"} => conn /= "open"
    /\ (pc \in {"returned", "raised"} /\ db_exists) => conn = "closed"
    /\ error /= "none" => pc \in {"finally", "raised"} /\ dataset = <<>>
    /\ pc = "raised" => error /= "none"

\* the metadata query has raised and build_dataset has exited
C8_Witness ==
    /\ pc = "raised"
    /\ error = "sqlite3.Error"
    /\ queries = BothQueries
    /\ conn = "closed"

\* C9: fetch_stock_info called with no ticker returns an empty mapping and
\* executes no query.
C9_EmptyInput ==
    (pc = "assemble" /\ Len(weekly_data) = 0) =>
        /\ stock_info_map = <<>>
        /\ queries = <<"weekly_rows">>

\* fetch_stock_info has returned from a call with no ticker, on a store
\* whose stock_info table holds records
C9_Witness ==
    /\ pc = "assemble"
    /\ Len(weekly_data) = 0
    /\ stock_info /= <<>>

\* C10: when both queries read the same store content, every returned
\* ticker is in the metadata mapping, and the stock_info of every Dataset
\* entry is a record of the table that carries a display name.
C10_NoPlaceholder ==
    (Returned /\ stock_info = info_seen) =>
        /\ \A j \in 1..Len(stock_info) :
              WeeklyWhere(stock_info[j])
                  <=> InfoWhere(stock_info[j], {stock_info[j].ts_code})
        /\ \A i \in 1..Len(weekly_data) : DictHas(stock_info_map, weekly_data[i].key)
        /\ \A i \in 1..Len(dataset) :
              /\ HasName(InfoAt(i))
              /\ InfoAt(i).name /= NullText
              /\ \E j \in 1..Len(stock_info) :
                    /\ stock_info[j].ts_code = KeyAt(i)
                    /\ stock_info[j].name = InfoAt(i).name

\* a returned ticker with two records, one of them with a NULL name
C10_Witness ==
    /\ Returned
    /\ stock_info = info_seen
    /\ \E i \in 1..Len(dataset) :
          \E j \in 1..Len(stock_info) :
              stock_info[j].ts_code = KeyAt(i) /\ stock_info[j].name = NullText

====
